---- MODULE Spec2Model ----
(***************************************************************************)
(* Model of the Sampler<TYPE> class template of L3_Utils/sampler.hpp,      *)
(* instantiated at TYPE = int: a fixed-size array of samples written as a  *)
(* circular buffer, with average / latest / highest / lowest queries.      *)
(*                                                                         *)
(* The object's fields are the first four variables.  The remaining        *)
(* variables record the history the properties talk about: how many        *)
(* samples were stored since construction or the last clear(), the last    *)
(* sample stored, the most recent samples of the current cycle, and the    *)
(* last call with its argument and outcome.                                *)
(***************************************************************************)
EXTENDS Integers, Sequences, FiniteSets

VARIABLES
    mSampleArraySize,   \* const int: number of samples
    mSampleIndex,       \* int: index of the next sample stored
    mAllSamplesReady,   \* bool: the whole array has been written
    mSamples,           \* TYPE*: the array, a function on 0..numSamples-1
    nStored,            \* history: storeSample() calls since construction/clear()
    lastSample,         \* history: <<s>> for the last sample stored, <<>> if none
    recent,             \* history: the samples stored since construction/clear(),
                        \*          oldest first, at most the last numSamples
    lastOp,             \* history: name of the last member function called
    lastArg,            \* history: <<idx>> argument of the last getSampleNum call
    ret,                \* history: <<v>> returned by the last call, <<>> if nothing
    ub,                 \* history: undefined behaviour executed by the last call
    halted              \* the processor trapped (fault) inside the last call

vars == <<mSampleArraySize, mSampleIndex, mAllSamplesReady, mSamples,
          nStored, lastSample, recent, lastOp, lastArg, ret, ub, halted>>

obj == <<mSampleArraySize, mSampleIndex, mAllSamplesReady, mSamples>>

---------------------------------------------------------------------------
(* Bounds of the model *)

\* largest numSamples given to the constructor
MaxCap == 3

\* most storeSample() calls between two clear() calls
MaxStores == 7

\* getSampleNum() is called with idx in -MaxIdx .. MaxIdx + MaxCap
MaxIdx == 4

\* the samples the callers store; 0 is also the constructor's fill value
Values == {-7, 0, 10, 20, 30}

\* what a read outside the array, or a division by zero that does not trap,
\* may yield: any int, represented by the sample values and one foreign value
Garbage == Values \cup {-99}

IdxArgs == (0 - MaxIdx) .. (MaxIdx + MaxCap)

---------------------------------------------------------------------------
(* int arithmetic of the target: / and % truncate toward zero *)

\* a / b for int a and b > 0
CDiv(a, b) == IF a >= 0 THEN a \div b ELSE 0 - ((0 - a) \div b)

\* a % b for int a and b > 0: the sign follows the dividend
CRem(a, b) == a - b * CDiv(a, b)

---------------------------------------------------------------------------
(* Array accesses *)

InBounds(i) == i \in DOMAIN mSamples

\* the values a read of mSamples[i] can produce
Load(i) == IF InBounds(i) THEN {mSamples[i]} ELSE Garbage

\* whether a call that executed undefined behaviour `u` may trap
Traps(u) == IF u = "none" THEN {FALSE} ELSE {FALSE, TRUE}

---------------------------------------------------------------------------
(* Inline getters *)

allSamplesReady == mAllSamplesReady

getMaxSampleCount == mSampleArraySize

\* faulty variant: the count does not depend on mAllSamplesReady
getSampleCount_Full == mSampleArraySize

getSampleCount == IF mAllSamplesReady THEN mSampleArraySize ELSE mSampleIndex

---------------------------------------------------------------------------
(* Construction *)

\* faulty variant: the array is allocated one element short
ZeroArray_Short(numSamples) == [i \in 0 .. (numSamples - 2) |-> 0]

\* the array new TYPE[numSamples] with every element set to 0
ZeroArray(numSamples) == [i \in 0 .. (numSamples - 1) |-> 0]

Sampler(numSamples) ==
    /\ mSampleArraySize = numSamples
    /\ mSampleIndex = 0
    /\ mAllSamplesReady = FALSE
    /\ mSamples = ZeroArray(numSamples)
    /\ nStored = 0
    /\ lastSample = <<>>
    /\ recent = <<>>
    /\ lastOp = "Sampler"
    /\ lastArg = <<>>
    /\ ret = <<>>
    /\ ub = "none"
    /\ halted = FALSE

\* construction with a valid size
Init == \E numSamples \in 1 .. MaxCap : Sampler(numSamples)

\* construction with any size the constructor accepts, 0 included
InitAnyCap == \E numSamples \in 0 .. MaxCap : Sampler(numSamples)

---------------------------------------------------------------------------
(* storeSample *)

\* faulty variant: the test is > instead of >=
Wraps_Late == mSampleIndex + 1 > mSampleArraySize

\* ++mSampleIndex >= mSampleArraySize
Wraps == mSampleIndex + 1 >= mSampleArraySize

\* faulty variant: the index is never set back to 0
NextIndex_NoWrap == mSampleIndex + 1

\* the value of mSampleIndex when storeSample returns
NextIndex == IF Wraps THEN 0 ELSE mSampleIndex + 1

\* faulty variant: the index is advanced before the write
StoreInto_AfterIncrement(sample) ==
    [mSamples EXCEPT ![(mSampleIndex + 1) % mSampleArraySize] = sample]

\* the array after mSamples[mSampleIndex] = sample; a write outside the
\* array lands in memory that is no slot of it
StoreInto(sample) ==
    IF InBounds(mSampleIndex)
    THEN [mSamples EXCEPT ![mSampleIndex] = sample]
    ELSE mSamples

\* faulty variant: the flag is set by every store
ReadyAfterStore_Always == TRUE

\* faulty variant: the flag follows the wrap instead of staying set
ReadyAfterStore_OnlyOnWrap == Wraps

\* mAllSamplesReady when storeSample returns: set on the wrap, else kept
ReadyAfterStore == mAllSamplesReady \/ Wraps

\* the samples passed to storeSample since construction/clear(), cut to the
\* last mSampleArraySize of them
RecentAfter(sample) ==
    LET s == Append(recent, sample)
    IN  IF Len(s) > mSampleArraySize THEN Tail(s) ELSE s

storeSample(sample) ==
    /\ ~halted
    /\ nStored < MaxStores
    /\ LET u == IF InBounds(mSampleIndex) THEN "none" ELSE "oob_write"
       IN  /\ ub' = u
           /\ \E h \in Traps(u) :
                /\ halted' = h
                /\ IF h
                   THEN UNCHANGED <<mSamples, mSampleIndex, mAllSamplesReady>>
                   ELSE /\ mSamples' = StoreInto(sample)
                        /\ mSampleIndex' = NextIndex
                        /\ mAllSamplesReady' = ReadyAfterStore
    /\ nStored' = nStored + 1
    /\ lastSample' = <<sample>>
    /\ recent' = RecentAfter(sample)
    /\ lastOp' = "storeSample"
    /\ lastArg' = <<>>
    /\ ret' = <<>>
    /\ UNCHANGED mSampleArraySize

---------------------------------------------------------------------------
(* const member functions *)

\* a call of const member function `op` that executes undefined behaviour
\* `u` ("none" if it executes none) and returns one of `results`
Returns(op, arg, results, u) ==
    /\ ~halted
    /\ \E h \in Traps(u) :
         /\ halted' = h
         /\ IF h THEN ret' = <<>> ELSE \E r \in results : ret' = <<r>>
    /\ lastOp' = op
    /\ lastArg' = arg
    /\ ub' = u
    /\ UNCHANGED <<obj, nStored, lastSample, recent>>

\* sum after the loop "for (i = 0; i < n; i++) sum += mSamples[i]"
RECURSIVE SumSlots(_)
SumSlots(n) == IF n <= 0 THEN 0 ELSE SumSlots(n - 1) + mSamples[n - 1]

\* faulty variant: the quotient rounded down instead of toward zero
Quotient_Floor(sum, numSamples) == sum \div numSamples

\* sum / numSamples for numSamples > 0
Quotient(sum, numSamples) == CDiv(sum, numSamples)

getAverage ==
    LET numSamples == getSampleCount
        sum == SumSlots(numSamples)
    IN  IF numSamples = 0
        THEN Returns("getAverage", <<>>, Garbage, "div_by_zero")
        ELSE Returns("getAverage", <<>>, {Quotient(sum, numSamples)}, "none")

\* faulty variant: the wrap goes to slot 0 instead of the last slot
LatestIndex_WrapToZero == IF 0 = mSampleIndex THEN 0 ELSE mSampleIndex - 1

\* faulty variant: the index read without the wrap to the last slot
LatestIndex_NoWrap == mSampleIndex - 1

\* idx of getLatest
LatestIndex ==
    IF 0 = mSampleIndex THEN mSampleArraySize - 1 ELSE mSampleIndex - 1

getLatest ==
    Returns("getLatest", <<>>, Load(LatestIndex),
            IF InBounds(LatestIndex) THEN "none" ELSE "oob_read")

\* faulty variant: the comparison of getLowest copied into getHighest
RECURSIVE HighestScan_CopiedCompare(_, _, _)
HighestScan_CopiedCompare(i, n, highest) ==
    IF i >= n THEN highest
    ELSE HighestScan_CopiedCompare(i + 1, n,
                     IF highest > mSamples[i] THEN mSamples[i] ELSE highest)

\* the loop of getHighest from index i with the running maximum `highest`
RECURSIVE HighestScan(_, _, _)
HighestScan(i, n, highest) ==
    IF i >= n THEN highest
    ELSE HighestScan(i + 1, n,
                     IF highest < mSamples[i] THEN mSamples[i] ELSE highest)

\* the loop of getLowest from index i with the running minimum `lowest`
RECURSIVE LowestScan(_, _, _)
LowestScan(i, n, lowest) ==
    IF i >= n THEN lowest
    ELSE LowestScan(i + 1, n,
                    IF lowest > mSamples[i] THEN mSamples[i] ELSE lowest)

\* faulty variant: the scan covers the whole array
HighestResults_WholeArray ==
    {HighestScan(0, mSampleArraySize, first) : first \in Load(0)}

\* the values getHighest can return: highest starts as mSamples[0]
HighestResults ==
    {HighestScan(0, getSampleCount, first) : first \in Load(0)}

\* faulty variant: the scan covers the whole array
LowestResults_WholeArray ==
    {LowestScan(0, mSampleArraySize, first) : first \in Load(0)}

\* the values getLowest can return: lowest starts as mSamples[0]
LowestResults == {LowestScan(0, getSampleCount, first) : first \in Load(0)}

getHighest ==
    Returns("getHighest", <<>>, HighestResults,
            IF InBounds(0) THEN "none" ELSE "oob_read")

getLowest ==
    Returns("getLowest", <<>>, LowestResults,
            IF InBounds(0) THEN "none" ELSE "oob_read")

Call_allSamplesReady ==
    Returns("allSamplesReady", <<>>, {allSamplesReady}, "none")

Call_getMaxSampleCount ==
    Returns("getMaxSampleCount", <<>>, {getMaxSampleCount}, "none")

Call_getSampleCount ==
    Returns("getSampleCount", <<>>, {getSampleCount}, "none")

\* idx % mSampleArraySize for mSampleArraySize > 0
SlotIndex(idx) == CRem(idx, mSampleArraySize)

getSampleNum(idx) ==
    IF mSampleArraySize = 0
    THEN Returns("getSampleNum", <<idx>>, Garbage, "div_by_zero")
    ELSE Returns("getSampleNum", <<idx>>, Load(SlotIndex(idx)),
                 IF InBounds(SlotIndex(idx)) THEN "none" ELSE "oob_read")

---------------------------------------------------------------------------
(* clear *)

\* faulty variant: clear also zeroes the array
ClearedSamples_Zeroed == [i \in DOMAIN mSamples |-> 0]

\* the array when clear returns: it is not written
ClearedSamples == mSamples

clear ==
    /\ ~halted
    /\ mAllSamplesReady' = FALSE
    /\ mSampleIndex' = 0
    /\ mSamples' = ClearedSamples
    /\ nStored' = 0
    /\ recent' = <<>>
    /\ lastOp' = "clear"
    /\ lastArg' = <<>>
    /\ ret' = <<>>
    /\ ub' = "none"
    /\ UNCHANGED <<mSampleArraySize, lastSample, halted>>

---------------------------------------------------------------------------
(* Specifications *)

Next ==
    \/ \E sample \in Values : storeSample(sample)
    \/ getAverage
    \/ getLatest
    \/ getHighest
    \/ getLowest
    \/ Call_allSamplesReady
    \/ Call_getMaxSampleCount
    \/ Call_getSampleCount
    \/ \E idx \in IdxArgs : getSampleNum(idx)
    \/ clear

\* a Sampler constructed with 1 <= numSamples and used by one caller
Spec == Init /\ [][Next]_vars

\* a Sampler constructed with 0 <= numSamples
SpecAnyCap == InitAnyCap /\ [][Next]_vars

---------------------------------------------------------------------------
(* Vocabulary of the properties *)

\* the physical slots the statistics cover: 0 .. getSampleCount - 1
CountedSlots == 0 .. (getSampleCount - 1)

\* the values held by the counted slots
CountedValues == {mSamples[i] : i \in CountedSlots}

Abs(a) == IF a < 0 THEN 0 - a ELSE a

RECURSIVE SumOver(_)
SumOver(S) ==
    IF S = {} THEN 0
    ELSE LET i == CHOOSE j \in S : TRUE IN mSamples[i] + SumOver(S \ {i})

\* s / n rounded toward zero, n > 0: the q of the sign of s with
\* |q| * n <= |s| < (|q| + 1) * n
TruncQuot(s, n) ==
    CHOOSE q \in (0 - Abs(s)) .. Abs(s) :
        /\ Abs(q) * n <= Abs(s)
        /\ Abs(s) < (Abs(q) + 1) * n
        /\ (s >= 0 => q >= 0)
        /\ (s <= 0 => q <= 0)

MaxOf(S) == CHOOSE m \in S : \A x \in S : x <= m

MinOf(S) == CHOOSE m \in S : \A x \in S : m <= x

\* the last call reported an error to its caller instead of a result: it
\* returned no value, executed no undefined behaviour and did not trap
SignalsError == ret = <<>> /\ ub = "none" /\ ~halted

---------------------------------------------------------------------------
(* Properties *)

\* C1: whenever at least one sample was stored since construction or the
\* last clear(), getLatest() reads the slot holding, and returns, the sample
\* given to the most recent storeSample(), while filling and when full.
C1_LatestIsLastStored ==
    nStored >= 1 =>
        /\ Load(LatestIndex) = {lastSample[1]}
        /\ (lastOp = "getLatest" => ret = lastSample)

\* C1 case: getLatest() called right after the index wrapped to 0, where the
\* slot at the index holds another value than the last one stored.
C1_Witness ==
    /\ lastOp = "getLatest"
    /\ nStored = mSampleArraySize
    /\ mSampleIndex = 0
    /\ mSampleArraySize >= 2
    /\ mSamples[0] # mSamples[mSampleArraySize - 1]
    /\ ret = <<mSamples[mSampleArraySize - 1]>>

\* C2: after n < capacity stores since construction or the last clear(),
\* getSampleCount() is n and allSamplesReady() is false.
C2_CountWhileFilling ==
    nStored < mSampleArraySize =>
        /\ getSampleCount = nStored
        /\ ~allSamplesReady
        /\ (lastOp = "getSampleCount" => ret = <<nStored>>)
        /\ (lastOp = "allSamplesReady" => ret = <<FALSE>>)

\* C2 case: one store after a clear() of a buffer that held more samples,
\* then getSampleCount().
C2_Witness ==
    /\ lastOp = "getSampleCount"
    /\ nStored = 1
    /\ mSampleArraySize = 3
    /\ mSamples[2] # 0
    /\ ret = <<1>>

\* C3: from the capacity-th store on, allSamplesReady() is true and
\* getSampleCount() is the capacity, across further stores and queries, and
\* only clear() turns mAllSamplesReady from true to false.
C3_FullUntilClear ==
    /\ [](nStored >= mSampleArraySize =>
            /\ allSamplesReady
            /\ getSampleCount = mSampleArraySize
            /\ (lastOp = "allSamplesReady" => ret = <<TRUE>>)
            /\ (lastOp = "getSampleCount" => ret = <<mSampleArraySize>>))
    /\ [][(mAllSamplesReady /\ ~mAllSamplesReady') => lastOp' = "clear"]_vars

\* C3 case: allSamplesReady() called after the index wrapped and moved on.
C3_Witness ==
    /\ lastOp = "allSamplesReady"
    /\ mSampleArraySize >= 2
    /\ nStored = mSampleArraySize + 1
    /\ mSampleIndex = 1
    /\ ret = <<TRUE>>

\* C4: with getSampleCount() > 0, getAverage() returns the sum of the slots
\* 0 .. getSampleCount()-1 divided by getSampleCount(), rounded toward zero;
\* capacity 2 holding 10, 20 gives 15 and holding 30, 20 gives 25.
C4_AverageOfCountedSlots ==
    (lastOp = "getAverage" /\ getSampleCount > 0) =>
        /\ ret = <<TruncQuot(SumOver(CountedSlots), getSampleCount)>>
        /\ (mSampleArraySize = 2 /\ mAllSamplesReady
              /\ mSamples[0] = 10 /\ mSamples[1] = 20 => ret = <<15>>)
        /\ (mSampleArraySize = 2 /\ mAllSamplesReady
              /\ mSamples[0] = 30 /\ mSamples[1] = 20 => ret = <<25>>)

\* C4 case: capacity 2 after storing 10, 20, 30: slots {30, 20}, average 25.
C4_Witness ==
    /\ lastOp = "getAverage"
    /\ mSampleArraySize = 2
    /\ nStored = 3
    /\ mSamples[0] = 30
    /\ mSamples[1] = 20
    /\ lastSample = <<30>>
    /\ ret = <<25>>

\* C5: with getSampleCount() > 0, getHighest() returns the maximum and
\* getLowest() the minimum of the slots 0 .. getSampleCount()-1; the slots
\* from getSampleCount() on have no influence.
C5_HighLowOfCountedSlots ==
    getSampleCount > 0 =>
        /\ (lastOp = "getHighest" => ret = <<MaxOf(CountedValues)>>)
        /\ (lastOp = "getLowest" => ret = <<MinOf(CountedValues)>>)

\* C5 case: getHighest() with one counted slot and a larger value, left from
\* before a clear(), in a slot that is not counted.
C5_Witness ==
    /\ lastOp = "getHighest"
    /\ getSampleCount = 1
    /\ mSampleArraySize >= 2
    /\ mSamples[1] > mSamples[0]
    /\ mSamples[1] # 0
    /\ ret = <<mSamples[0]>>

\* C6: getAverage() with getSampleCount() = 0 reports an error to the caller:
\* it neither divides by zero nor returns a number.
C6_AverageEmptySignals ==
    (lastOp = "getAverage" /\ getSampleCount = 0) => SignalsError

\* C7: getHighest() and getLowest() with getSampleCount() = 0 report an error
\* to the caller instead of returning the content of slot 0.
C7_HighLowEmptySignals ==
    (lastOp \in {"getHighest", "getLowest"} /\ getSampleCount = 0)
        => SignalsError

\* C8: the capacity is at least 1 in every state (a request of 0 or less is
\* rejected or clamped), and no storeSample() writes outside the array.
C8_CapacityValid == mSampleArraySize >= 1 /\ ub # "oob_write"

\* C9: for every int idx, negative ones included, getSampleNum(idx) reads
\* the slot idx mod capacity, inside the array, and getSampleNum(idx) and
\* getSampleNum(idx + capacity) read the same slot.
C9_SampleAtPeriodic ==
    lastOp = "getSampleNum" =>
        LET idx == lastArg[1] IN
        /\ ub = "none"
        /\ SlotIndex(idx) = idx % mSampleArraySize
        /\ SlotIndex(idx) = SlotIndex(idx + mSampleArraySize)
        /\ ret = <<mSamples[idx % mSampleArraySize]>>

\* C10: clear() sets mAllSamplesReady to false and mSampleIndex to 0, so the
\* count is 0 afterwards, and leaves the capacity and every slot as it was:
\* getSampleNum(i) reads the same value before and after, 0 <= i < capacity.
C10_ClearFrame ==
    [][lastOp' = "clear" =>
         /\ mAllSamplesReady' = FALSE
         /\ mSampleIndex' = 0
         /\ getSampleCount' = 0
         /\ mSampleArraySize' = mSampleArraySize
         /\ mSamples' = mSamples
         /\ \A i \in 0 .. (mSampleArraySize - 1) :
               Load(SlotIndex(i))' = Load(SlotIndex(i))]_vars

\* C10 case: the state right after clear() of a buffer holding samples.
C10_Witness ==
    /\ lastOp = "clear"
    /\ lastSample # <<>>
    /\ \E i \in DOMAIN mSamples : mSamples[i] # 0

---------------------------------------------------------------------------
(* Vocabulary of the properties on the stored history *)

\* how many slots of the array hold v
SlotsHolding(v) == Cardinality({i \in DOMAIN mSamples : mSamples[i] = v})

\* how many of the recent samples are v
RecentHolding(v) == Cardinality({k \in 1 .. Len(recent) : recent[k] = v})

\* the values of the recent samples
RecentValues == {recent[k] : k \in 1 .. Len(recent)}

RECURSIVE SeqSum(_)
SeqSum(s) == IF s = <<>> THEN 0 ELSE Head(s) + SeqSum(Tail(s))

\* the calls that only read the object
QueryOps ==
    {"getAverage", "getLatest", "getHighest", "getLowest", "allSamplesReady",
     "getMaxSampleCount", "getSampleCount", "getSampleNum"}

---------------------------------------------------------------------------
(* Properties, continued *)

\* C11: after construction with capacity >= 1, every sequence of stores,
\* clears and queries keeps 0 <= mSampleIndex < capacity.
C11_IndexInRange ==
    /\ 0 <= mSampleIndex
    /\ mSampleIndex < mSampleArraySize

\* C11 case: the store into the last slot has just set the index back to 0.
C11_Witness ==
    /\ lastOp = "storeSample"
    /\ mSampleArraySize = 3
    /\ nStored = 2 * mSampleArraySize
    /\ mSampleIndex = 0

\* C12: from the capacity-th store of a cycle on, the array holds exactly the
\* last capacity samples stored (as a multiset), the j-th store of the cycle
\* in slot (j-1) mod capacity, and each further store overwrites the slot
\* holding the oldest of them.
C12_OldestFirstEviction ==
    /\ [](nStored >= mSampleArraySize =>
            /\ Len(recent) = mSampleArraySize
            /\ \A k \in 1 .. mSampleArraySize :
                  LET j == nStored - mSampleArraySize + k
                  IN  mSamples[(j - 1) % mSampleArraySize] = recent[k]
            /\ \A v \in Values : SlotsHolding(v) = RecentHolding(v))
    /\ [][(lastOp' = "storeSample" /\ nStored >= mSampleArraySize) =>
            /\ mSamples[mSampleIndex] = recent[1]
            /\ mSamples' = [mSamples EXCEPT ![mSampleIndex] = lastSample'[1]]
            /\ recent' = Append(Tail(recent), lastSample'[1])]_vars

\* C12 case: capacity 3 after 4 stores of pairwise different samples: the
\* fourth has replaced the first in slot 0.
C12_Witness ==
    /\ lastOp = "storeSample"
    /\ mSampleArraySize = 3
    /\ nStored = 4
    /\ recent[1] # recent[2]
    /\ recent[2] # recent[3]
    /\ recent[1] # recent[3]
    /\ mSamples[0] = recent[3]
    /\ mSamples[1] = recent[1]
    /\ mSamples[2] = recent[2]

\* the calls that only read leave the capacity, the index, the flag and the
\* array as they were
QueriesLeaveObject == [][lastOp' \in QueryOps => obj' = obj]_vars

\* C13: the queries leave mSampleIndex, mAllSamplesReady and the array
\* unchanged, and getAverage(), getHighest() and getLowest() called again
\* with no store or clear in between return the same result again.
C13_QueriesIdempotent ==
    /\ QueriesLeaveObject
    /\ [][(lastOp \in {"getAverage", "getHighest", "getLowest"}
             /\ lastOp' = lastOp)
          => (ret' = ret /\ ret' # <<>>)]_vars

\* C14: storeSample(s) writes s into the slot at the index it finds, leaves
\* every other slot and the capacity unchanged, sets the index to
\* (index + 1) mod capacity, and never fails.
C14_StoreFrame ==
    [][lastOp' = "storeSample" =>
         LET s == lastSample'[1] IN
         /\ mSamples'[mSampleIndex] = s
         /\ \A i \in DOMAIN mSamples :
               i # mSampleIndex => mSamples'[i] = mSamples[i]
         /\ DOMAIN mSamples' = DOMAIN mSamples
         /\ mSampleArraySize' = mSampleArraySize
         /\ mSampleIndex' = (mSampleIndex + 1) % mSampleArraySize
         /\ ub' = "none"
         /\ ~halted']_vars

\* C14 case: the store into the last slot of a buffer of capacity >= 2,
\* which moves the index from capacity-1 to 0.
C14_Witness ==
    /\ lastOp = "storeSample"
    /\ mSampleArraySize >= 2
    /\ mSampleIndex = 0
    /\ nStored = mSampleArraySize
    /\ lastSample # <<0>>
    /\ mSamples[mSampleArraySize - 1] = lastSample[1]
    /\ mSamples[0] # lastSample[1]

\* C15: mAllSamplesReady turns from false to true only in a store that moves
\* the index from capacity-1 to 0, and does so exactly on the capacity-th
\* store of each construction/clear cycle: not earlier and not again.
C15_FillingToFullOnce ==
    /\ [][(~mAllSamplesReady /\ mAllSamplesReady') =>
            /\ lastOp' = "storeSample"
            /\ mSampleIndex = mSampleArraySize - 1
            /\ mSampleIndex' = 0
            /\ nStored' = mSampleArraySize]_vars
    /\ [][(lastOp' = "storeSample" /\ nStored' = mSampleArraySize) =>
            (~mAllSamplesReady /\ mAllSamplesReady')]_vars
    /\ [][(lastOp' = "storeSample" /\ nStored' # mSampleArraySize) =>
            mAllSamplesReady' = mAllSamplesReady]_vars

\* C15 case: the second store of a cycle of a buffer of capacity 2 has just
\* set the flag.
C15_Witness ==
    /\ lastOp = "storeSample"
    /\ mSampleArraySize = 2
    /\ nStored = 2
    /\ mAllSamplesReady
    /\ mSampleIndex = 0
    /\ RecentValues = {-7}
    /\ lastSample = <<-7>>

\* C16: with getSampleCount() = 0, getLatest() returns the content of the
\* last slot, mSamples[capacity-1]: 0 on a buffer never stored into, and
\* after clear() whatever that slot still holds, which need not be the last
\* sample stored before the clear().
C16_LatestWhenEmpty ==
    (lastOp = "getLatest" /\ getSampleCount = 0) =>
        /\ ret = <<mSamples[mSampleArraySize - 1]>>
        /\ ub = "none"
        /\ (lastSample = <<>> => ret = <<0>>)

\* C16 case: capacity 3, stores of 10 and 20, clear(), getLatest(): the
\* result is the 0 of the never written last slot, not 20.
C16_Witness ==
    /\ lastOp = "getLatest"
    /\ mSampleArraySize = 3
    /\ nStored = 0
    /\ mSamples[0] = 10
    /\ mSamples[1] = 20
    /\ mSamples[2] = 0
    /\ lastSample = <<20>>
    /\ ret = <<0>>

\* C17: after a clear() and k >= 1 stores, whatever was stored before the
\* clear(), getAverage(), getHighest() and getLowest() are the average,
\* maximum and minimum of the samples stored since the clear() alone (all k
\* of them if k < capacity, else the last capacity of them).
C17_NoStaleInStatistics ==
    nStored >= 1 =>
        /\ (lastOp = "getAverage" =>
              ret = <<TruncQuot(SeqSum(recent), Len(recent))>>)
        /\ (lastOp = "getHighest" => ret = <<MaxOf(RecentValues)>>)
        /\ (lastOp = "getLowest" => ret = <<MinOf(RecentValues)>>)

\* C17 case: getLowest() one store after a clear(), with a lower value from
\* before the clear() still in slot 1.
C17_Witness ==
    /\ lastOp = "getLowest"
    /\ mSampleArraySize = 3
    /\ nStored = 1
    /\ mSamples[1] < mSamples[0]
    /\ mSamples[1] # 0
    /\ recent = <<mSamples[0]>>
    /\ ret = <<mSamples[0]>>

\* C18: with getSampleCount() > 0 (and a sum that fits an int), what
\* getLowest(), getAverage() and getHighest() return in the same state
\* satisfies lowest <= average <= highest, for negative samples and
\* quotients rounded toward zero too.
C18_AverageBetweenLowAndHigh ==
    getSampleCount > 0 =>
        LET avg == Quotient(SumSlots(getSampleCount), getSampleCount)
        IN  /\ \A lo \in LowestResults : lo <= avg
            /\ \A hi \in HighestResults : avg <= hi

\* C18 case: two counted slots with the sum -7: the average is -3.
C18_Witness ==
    /\ lastOp = "getAverage"
    /\ getSampleCount = 2
    /\ SumSlots(2) = 0 - 7
    /\ ret = <<0 - 3>>
    /\ LowestResults = {0 - 7}
    /\ HighestResults = {0}

\* C19: after construction with capacity >= 1, every array access of
\* storeSample, getLatest, getAverage, getHighest and getLowest is at an
\* index in 0 .. capacity-1, in the empty state too (where getHighest and
\* getLowest read slot 0 and getLatest reads slot capacity-1).
C19_AccessesInBounds ==
    /\ DOMAIN mSamples = 0 .. (mSampleArraySize - 1)
    /\ InBounds(mSampleIndex)
    /\ InBounds(LatestIndex)
    /\ InBounds(0)
    /\ \A i \in CountedSlots : InBounds(i)
    /\ (lastOp \in {"storeSample", "getLatest", "getAverage", "getHighest",
                    "getLowest"}
          => ub \notin {"oob_read", "oob_write"})

\* C19 case: getHighest() on a buffer emptied by clear().
C19_Witness ==
    /\ lastOp = "getHighest"
    /\ getSampleCount = 0
    /\ lastSample # <<>>
    /\ LatestIndex = mSampleArraySize - 1
    /\ ub = "none"
    /\ ret = <<mSamples[0]>>

====
